---- MODULE Spec2Model ----
(***************************************************************************)
(* TickerAI: document chunking, knowledge-base ingestion into the vector   *)
(* store, context retrieval, the MCP server's tool handlers and the MCP    *)
(* client's connection guard.                                              *)
(*                                                                         *)
(* Texts are sequences of one-character strings; messages are strings.     *)
(***************************************************************************)
EXTENDS Integers, Sequences, FiniteSets, TLC

VARIABLES
    chunk_size,     \* DocumentProcessor.chunk_size   (config.CHUNK_SIZE)
    chunk_overlap,  \* DocumentProcessor.chunk_overlap (config.CHUNK_OVERLAP)
    \* ---- locals of one run of DocumentProcessor.chunk_text
    text,           \* the text being chunked
    metadata,       \* the metadata attached to each chunk
    start,          \* loop variable
    chunk_id,       \* loop variable
    chunks,         \* the list built by the loop
    pc,             \* "idle" | "loop" | "done": position in chunk_text
    \* ---- the knowledge directory and one run of process_documents
    knowledge_dir,  \* [exists, files]: config.KNOWLEDGE_DIR on disk
    file_index,     \* position of the rglob iteration (1-based)
    all_chunks,     \* the list built by process_documents
    pd_pc,          \* "idle" | "start" | "loop" | "done" | "raised"
    \* ---- one call of VectorStore.get_context_for_query on given results
    results,        \* what self.query(query) returned
    ticker,         \* the ticker argument (None, or a string)
    context,        \* the string returned
    cx_pc,          \* "idle" | "call" | "done"
    \* ---- the vector store, the server and the client
    collection,     \* the records of the ChromaDB collection, in insertion order
    llm_provider,   \* config.LLM_PROVIDER: "ollama" | "openai"
    session,        \* TickerAIMCPClient.session: "None" | "ClientSession"
    stdio_context,  \* whether the client has the attribute stdio_context
    connected,      \* whether the session's transport to the server is up
    connect_returned, \* the last connect() returned and no disconnect() since
    last,           \* the last operation: what was called and what came back
    \* ---- the server's event loop (src/mcp_server.py run, call_tool)
    tasks,          \* the tool requests: [name, pc, seen, seen_mid] per request
    loop,           \* the request whose handler holds the event loop, or 0
    \* ---- two processes, each with its own VectorStore on the same chroma_dir
    writers,        \* per process: position in ingest_documents and its locals
    disk            \* the collection on disk: [exists, gen, raced]

cfgVars == <<chunk_size, chunk_overlap>>
chunkVars == <<text, metadata, start, chunk_id, chunks, pc>>
docVars == <<knowledge_dir, file_index, all_chunks, pd_pc>>
ctxVars == <<results, ticker, context, cx_pc>>
clientVars == <<session, stdio_context, connected, connect_returned>>
sysVars == <<collection, llm_provider, clientVars, last>>
concVars == <<tasks, loop, writers, disk>>
vars == <<cfgVars, chunkVars, docVars, ctxVars, sysVars, concVars>>

(***************************************************************************)
(* Bounds of the model.                                                    *)
(***************************************************************************)
MaxLen == 4         \* longest text handed to chunk_text
MaxChunkSize == 3   \* largest chunk_size / chunk_overlap configured
MaxIter == MaxLen + 2   \* cap on the iterations of a loop that never exits
MaxFiles == 2       \* most entries in the knowledge directory
MaxResults == 2     \* most results a query returns
MaxTasks == 3       \* most tool requests the server is sent in one run

Chars == {"a", "1", " "}
Texts == UNION {[1..n -> Chars] : n \in 0..MaxLen}

Min(a, b) == IF a <= b THEN a ELSE b
Max(a, b) == IF a >= b THEN a ELSE b

(***************************************************************************)
(* Python's s[a:b] on a sequence: negative indices count from the end,     *)
(* both ends are clipped to the sequence, an empty range gives "".         *)
(***************************************************************************)
SliceIndex(n, i) == IF i < 0 THEN Max(i + n, 0) ELSE Min(i, n)

Slice(s, a, b) ==
    LET lo == SliceIndex(Len(s), a)
        hi == SliceIndex(Len(s), b)
    IN  IF hi <= lo THEN <<>> ELSE SubSeq(s, lo + 1, hi)

(***************************************************************************)
(* DocumentProcessor.chunk_text, document_processor.py:106-144.            *)
(* A loop state is [start, chunk_id, chunks].                              *)
(***************************************************************************)
ChunkLoopInit == [start |-> 0, chunk_id |-> 0, chunks |-> <<>>]

\* a loop that gives up when the stride is not positive
ChunkLoopCondGuarded(t, st) == st.start < Len(t) /\ chunk_overlap < chunk_size

\* ChunkLoopCond with <= for <
ChunkLoopCondInclusive(t, st) == st.start <= Len(t)

\* the while condition, line 124
ChunkLoopCond(t, st) == st.start < Len(t)

\* MakeChunk slicing from start + 1: a 1-based start
MakeChunkOneBased(t, md, st) ==
    LET end == st.start + chunk_size
    IN  [text |-> Slice(t, st.start + 1, end),
         metadata |-> [chunk_id |-> st.chunk_id,
                       start_char |-> st.start,
                       end_char |-> end] @@ md]

\* the chunk built by one iteration, lines 125-137
MakeChunk(t, md, st) ==
    LET end == st.start + chunk_size
    IN  [text |-> Slice(t, st.start, end),
         metadata |-> [chunk_id |-> st.chunk_id,
                       start_char |-> st.start,
                       end_char |-> end] @@ md]

\* NextStart with the overlap taken off twice
NextStartTwiceOverlap(st) == st.start + chunk_size - 2 * chunk_overlap

\* NextStart with the overlap forgotten
NextStartNoOverlap(st) == st.start + chunk_size

\* the start of the next window, line 141
NextStart(st) == st.start + chunk_size - chunk_overlap

\* one iteration of the loop body, lines 125-142
ChunkLoopBody(t, md, st) ==
    [start |-> NextStart(st),
     chunk_id |-> st.chunk_id + 1,
     chunks |-> Append(st.chunks, MakeChunk(t, md, st))]

RECURSIVE ChunkLoop(_, _, _)
ChunkLoop(t, md, st) ==
    IF ChunkLoopCond(t, st) THEN ChunkLoop(t, md, ChunkLoopBody(t, md, st))
    ELSE st.chunks

\* chunk_text as a function of its arguments; only called with
\* chunk_overlap < chunk_size or an empty text, where the loop exits
chunk_text(t, md) == ChunkLoop(t, md, ChunkLoopInit)

(***************************************************************************)
(* Files of the knowledge directory.  A file is                            *)
(*   [name, relative_path, suffix, is_file, readable, content, pages]      *)
(* content: the characters of a text or JSON file; pages: the page texts   *)
(* of a PDF; readable = FALSE: opening or parsing the file raises.         *)
(***************************************************************************)
SUPPORTED_FILE_TYPES == {".txt", ".md", ".pdf", ".json"}

\* str.lower() on the suffixes of the model
SuffixLower(sfx) == IF sfx = ".TXT" THEN ".txt" ELSE sfx

RECURSIVE Flatten(_)
Flatten(ss) == IF ss = <<>> THEN <<>> ELSE Head(ss) \o Flatten(Tail(ss))

(***************************************************************************)
(* A read returns [raised, text]: raised = TRUE is an exception leaving    *)
(* the function.  Each reader catches every Exception and returns "".      *)
(***************************************************************************)
Returned(t) == [raised |-> FALSE, text |-> t]
Raised == [raised |-> TRUE, text |-> <<>>]

\* read_text_file without its except clause
read_text_file_uncaught(f) == IF f.readable THEN Returned(f.content) ELSE Raised

\* read_text_file, document_processor.py:33-47
read_text_file(f) == IF f.readable THEN Returned(f.content) ELSE Returned(<<>>)

\* read_pdf_file, document_processor.py:49-66
read_pdf_file(f) ==
    IF f.readable
    THEN Returned(Flatten([i \in 1..Len(f.pages) |-> f.pages[i] \o <<"\n">>]))
    ELSE Returned(<<>>)

\* JSON on the characters of the model: a document is an integer written
\* with the digit "1", with optional blanks around it
IsBlank(c) == c = " "
RECURSIVE LStrip(_)
LStrip(t) == IF t /= <<>> /\ IsBlank(Head(t)) THEN LStrip(Tail(t)) ELSE t
RECURSIVE RStrip(_)
RStrip(t) ==
    IF t /= <<>> /\ IsBlank(t[Len(t)]) THEN RStrip(SubSeq(t, 1, Len(t) - 1)) ELSE t
JsonToken(t) == RStrip(LStrip(t))
JsonValid(t) == JsonToken(t) /= <<>> /\ \A i \in 1..Len(JsonToken(t)) : JsonToken(t)[i] = "1"
\* json.dumps(json.load(f), indent=2) of a valid document
JsonDumpsLoad(t) == JsonToken(t)

\* read_json_file, document_processor.py:68-83
read_json_file(f) ==
    IF f.readable /\ JsonValid(f.content)
    THEN Returned(JsonDumpsLoad(f.content))
    ELSE Returned(<<>>)

\* read_document, document_processor.py:85-104
read_document(f) ==
    LET suffix == SuffixLower(f.suffix)
    IN  IF suffix \in {".txt", ".md"} THEN read_text_file(f)
        ELSE IF suffix = ".pdf" THEN read_pdf_file(f)
        ELSE IF suffix = ".json" THEN read_json_file(f)
        ELSE Returned(<<>>)

KnowledgeRoot == "knowledge/"

\* document_processor.py:163-166
is_supported(f) == f.is_file /\ f.suffix \in SUPPORTED_FILE_TYPES

\* document_processor.py:180-188
FileMetadata(f) ==
    [filename |-> f.name,
     filepath |-> KnowledgeRoot \o f.relative_path,
     file_type |-> f.suffix,
     relative_path |-> f.relative_path]

\* one pass of the for loop's body, document_processor.py:162-196:
\* [raised, chunks], the chunks directory entry f adds to all_chunks, or an
\* exception of read_document, which process_documents does not catch
FileChunks(f) ==
    IF ~is_supported(f) THEN [raised |-> FALSE, chunks |-> <<>>]
    ELSE LET content == read_document(f)
         IN  IF content.raised THEN [raised |-> TRUE, chunks |-> <<>>]
             ELSE IF content.text = <<>> THEN [raised |-> FALSE, chunks |-> <<>>]
             ELSE [raised |-> FALSE,
                   chunks |-> chunk_text(content.text, FileMetadata(f))]

RECURSIVE ProcessFiles(_, _, _)
ProcessFiles(files, i, acc) ==
    IF i > Len(files) THEN [raised |-> FALSE, chunks |-> acc]
    ELSE LET fc == FileChunks(files[i])
         IN  IF fc.raised THEN [raised |-> TRUE, chunks |-> <<>>]
             ELSE ProcessFiles(files, i + 1, acc \o fc.chunks)

\* process_documents, document_processor.py:146-199: [raised, chunks]
process_documents(dir) ==
    IF ~dir.exists THEN [raised |-> FALSE, chunks |-> <<>>]
    ELSE ProcessFiles(dir.files, 1, <<>>)

(***************************************************************************)
(* Strings.  A text (sequence of characters) is rendered into a string     *)
(* when it is formatted into a message.                                    *)
(***************************************************************************)
RECURSIVE Str(_)
Str(t) == IF t = <<>> THEN "" ELSE Head(t) \o Str(Tail(t))

\* "\n".join(parts)
RECURSIVE JoinLines(_)
JoinLines(parts) ==
    IF parts = <<>> THEN ""
    ELSE IF Len(parts) = 1 THEN parts[1]
    ELSE parts[1] \o "\n" \o JoinLines(Tail(parts))

\* str.upper() on the letters of the model
UpperChar(c) == IF c = "a" THEN "A" ELSE IF c = "b" THEN "B" ELSE c
Upper(t) == [i \in 1..Len(t) |-> UpperChar(t[i])]

\* an Optional[str]: None, or a string
None == [none |-> TRUE, s |-> <<>>]
Some(t) == [none |-> FALSE, s |-> t]
\* Python truth of an Optional[str]: neither None nor ""
Truthy(x) == ~x.none /\ x.s /= <<>>

\* f"{x:.2f}" of x given in hundredths
Digit2(n) == IF n < 10 THEN "0" \o ToString(n) ELSE ToString(n)
Fmt2f(h) ==
    IF h < 0 THEN "-" \o ToString((0 - h) \div 100) \o "." \o Digit2((0 - h) % 100)
    ELSE ToString(h \div 100) \o "." \o Digit2(h % 100)

NoContextFound == "No relevant context found."

(***************************************************************************)
(* VectorStore.get_context_for_query after self.query has returned,        *)
(* vector_store.py:201-226.  results is the dict query returns: documents, *)
(* metadatas and distances are lists holding one list each (one query), or *)
(* empty lists when the query embedding failed.  Distances are in          *)
(* hundredths.                                                             *)
(***************************************************************************)
\* the filter comparing the tickers as they are written
SkipsResultCaseSensitive(md, tk) ==
    /\ Truthy(tk) /\ "ticker" \in DOMAIN md
    /\ md.ticker /= tk.s

\* lines 212-214: the result is skipped (continue)
SkipsResult(md, tk) ==
    /\ Truthy(tk) /\ "ticker" \in DOMAIN md
    /\ Upper(md.ticker) /= Upper(tk.s)

\* lines 216-224: the four parts appended for result number i (0-based)
ContextParts(i, doc, md, distance) ==
    << "--- Context " \o ToString(i + 1) \o " (Relevance: "
            \o Fmt2f(100 - distance) \o ") ---",
       "Source: " \o (IF "filename" \in DOMAIN md THEN md.filename ELSE "Unknown"),
       "Content: " \o Str(doc),
       "" >>

\* the for loop over zip(documents[0], metadatas[0], distances[0]), lines 205-224
RECURSIVE ContextLoop(_, _, _, _, _, _)
ContextLoop(docs, mds, dists, tk, i, context_parts) ==
    IF i >= Min(Len(docs), Min(Len(mds), Len(dists))) THEN context_parts
    ELSE IF SkipsResult(mds[i + 1], tk)
         THEN ContextLoop(docs, mds, dists, tk, i + 1, context_parts)
         ELSE ContextLoop(docs, mds, dists, tk, i + 1,
                    context_parts \o ContextParts(i, docs[i + 1], mds[i + 1], dists[i + 1]))

\* line 201: not results['documents'] or not results['documents'][0]
NoResults(res) == IF res.documents = <<>> THEN TRUE ELSE res.documents[1] = <<>>

FormatContext(res, tk) ==
    IF NoResults(res) THEN NoContextFound
    ELSE JoinLines(ContextLoop(res.documents[1], res.metadatas[1],
                               res.distances[1], tk, 0, <<>>))

(***************************************************************************)
(* chunk_text run step by step, one loop iteration per step.               *)
(***************************************************************************)
SampleMetadata ==
    [filename |-> "aapl.txt", filepath |-> "knowledge/aapl.txt",
     file_type |-> ".txt", relative_path |-> "aapl.txt"]

LoopState == [start |-> start, chunk_id |-> chunk_id, chunks |-> chunks]

\* the parts of the state a specification does not use
ChunkIdle ==
    /\ text = <<>>
    /\ metadata = SampleMetadata
    /\ start = 0
    /\ chunk_id = 0
    /\ chunks = <<>>
    /\ pc = "idle"

DocsIdle ==
    /\ file_index = 1
    /\ all_chunks = <<>>
    /\ pd_pc = "idle"

CtxIdle ==
    /\ results = [documents |-> <<>>, metadatas |-> <<>>, distances |-> <<>>]
    /\ ticker = [none |-> TRUE, s |-> <<>>]
    /\ context = ""
    /\ cx_pc = "idle"

NoStats == [collection_name |-> "", document_count |-> -1, db_path |-> ""]

\* the value of a tool argument: absent from the arguments dict, null, or
\* a string
Absent == [kind |-> "absent", s |-> <<>>]
Null == [kind |-> "null", s |-> <<>>]
StrArg(t) == [kind |-> "str", s |-> t]

NoArguments == [ticker |-> Absent, query |-> Absent, context |-> Absent]

NotCalled == [called |-> 0, raised |-> FALSE, text |-> "", prompt |-> "", system_prompt |-> ""]

\* the record of the last operation: the operation and the tool or method
\* name, its arguments, how it ended ("returned" or "raised"), the text it
\* returned or the message of its exception, the store and provider calls
\* it made in order, how the stock-query handler ended, the context it
\* retrieved, what the provider's generate did, the statistics returned,
\* whether the client handed the call to its session, and the number of
\* records in the collection when the operation began
NoOp ==
    [op |-> "none", name |-> "", force_refresh |-> FALSE,
     arguments |-> NoArguments, status |-> "returned", text |-> "",
     calls |-> <<>>, handler |-> "none", context |-> "",
     generate |-> NotCalled, stats |-> NoStats, forwarded |-> FALSE,
     count_before |-> 0]

\* a request slot no request has arrived in
NoTask == [name |-> "", pc |-> "none", seen |-> -1, seen_mid |-> FALSE]

\* the processes that open the store
Writers == {1, 2}

\* a process that has not constructed its VectorStore: the position, the
\* force_refresh argument, the collection its handle refers to, the count
\* it read, the records it prepared, whether it called collection.add and
\* how ingest_documents ended
NoWriter ==
    [pc |-> "idle", force_refresh |-> FALSE, handle |-> 0, count |-> -1,
     batch |-> <<>>, added |-> FALSE, status |-> "none"]

\* the collection of the first run: it exists, no process has recreated it
DiskIdle == [exists |-> TRUE, gen |-> 0, raced |-> FALSE]

ConcIdle ==
    /\ tasks = [i \in 1..MaxTasks |-> NoTask]
    /\ loop = 0
    /\ writers = [w \in Writers |-> NoWriter]
    /\ disk = DiskIdle

SysIdle ==
    /\ ConcIdle
    /\ collection = <<>>
    /\ llm_provider = "ollama"
    /\ session = "None"
    /\ stdio_context = FALSE
    /\ connected = FALSE
    /\ connect_returned = FALSE
    /\ last = NoOp

\* chunk sizes and overlaps for which the chunking loop exits
ValidConfig ==
    /\ chunk_size \in 1..MaxChunkSize
    /\ chunk_overlap \in 0..(chunk_size - 1)

InitChunk ==
    /\ chunk_size \in 1..MaxChunkSize
    /\ chunk_overlap \in 0..MaxChunkSize
    /\ text \in Texts
    /\ metadata = SampleMetadata
    /\ start = ChunkLoopInit.start
    /\ chunk_id = ChunkLoopInit.chunk_id
    /\ chunks = ChunkLoopInit.chunks
    /\ pc = "loop"
    /\ knowledge_dir = [exists |-> FALSE, files |-> <<>>]
    /\ DocsIdle
    /\ CtxIdle
    /\ SysIdle

\* one pass of the while loop, document_processor.py:124-142
ChunkIterate ==
    /\ pc = "loop"
    /\ ChunkLoopCond(text, LoopState)
    /\ chunk_id < MaxIter
    /\ LET st == ChunkLoopBody(text, metadata, LoopState)
       IN  /\ start' = st.start
           /\ chunk_id' = st.chunk_id
           /\ chunks' = st.chunks
    /\ UNCHANGED <<cfgVars, text, metadata, pc, docVars, ctxVars, sysVars, concVars>>

\* the loop exits and chunk_text returns chunks, line 144
ChunkReturn ==
    /\ pc = "loop"
    /\ ~ChunkLoopCond(text, LoopState)
    /\ pc' = "done"
    /\ UNCHANGED <<cfgVars, text, metadata, start, chunk_id, chunks, docVars, ctxVars, sysVars, concVars>>

NextChunk == ChunkIterate \/ ChunkReturn

SpecChunk == InitChunk /\ [][NextChunk]_vars

CeilDiv(a, b) == (a + b - 1) \div b

\* C5: when chunk_text has returned and 0 <= chunk_overlap < chunk_size, it
\* has built exactly ceil(len(text) / (chunk_size - chunk_overlap)) chunks
\* (none for the empty text) and their chunk_id run 0, 1, 2, ... in order.
C5_ChunkCount ==
    (pc = "done" /\ chunk_overlap < chunk_size) =>
        /\ Len(chunks) = CeilDiv(Len(text), chunk_size - chunk_overlap)
        /\ \A i \in 1..Len(chunks) : chunks[i].metadata.chunk_id = i - 1

C5_Witness ==
    /\ pc = "done"
    /\ 0 < chunk_overlap /\ chunk_overlap < chunk_size
    /\ Len(chunks) >= 2
    /\ Len(text) % (chunk_size - chunk_overlap) /= 0

\* the part of chunk i that the next chunk does not cover
NonOverlapPart(i) ==
    IF i < Len(chunks)
    THEN Slice(chunks[i].text, 0, chunk_size - chunk_overlap)
    ELSE chunks[i].text

\* C6: when chunk_text has returned and 0 <= chunk_overlap < chunk_size, the
\* first chunk_size - chunk_overlap characters of every chunk but the last,
\* followed by the whole last chunk, concatenated in order, are the text.
C6_Reconstruction ==
    (pc = "done" /\ chunk_overlap < chunk_size) =>
        Flatten([i \in 1..Len(chunks) |-> NonOverlapPart(i)]) = text

C6_Witness ==
    /\ pc = "done"
    /\ 0 < chunk_overlap /\ chunk_overlap < chunk_size
    /\ Len(chunks) >= 3
    /\ Len(chunks[Len(chunks)].text) < chunk_size
    /\ \E i, j \in 1..Len(text) : text[i] /= text[j]

(***************************************************************************)
(* The knowledge directories of the model: up to MaxFiles entries in rglob *)
(* order, entry i drawn from FileChoices(i).                               *)
(***************************************************************************)
PatternText(n) == [i \in 1..n |-> IF i % 2 = 1 THEN "a" ELSE "1"]

DirOf(i) == IF i = 1 THEN "" ELSE "sub" \o ToString(i) \o "/"

MkFile(i, sfx, isf, rd, content, pages) ==
    [name |-> "aapl" \o sfx,
     relative_path |-> DirOf(i) \o "aapl" \o sfx,
     suffix |-> sfx, is_file |-> isf, readable |-> rd,
     content |-> content, pages |-> pages]

FileChoices(i) ==
    {MkFile(i, ".txt", TRUE, TRUE, PatternText(n), <<>>) : n \in 0..MaxLen}
    \cup {MkFile(i, ".txt", TRUE, FALSE, PatternText(MaxLen), <<>>),
          MkFile(i, ".md", TRUE, TRUE, PatternText(1), <<>>),
          MkFile(i, ".pdf", TRUE, TRUE, <<>>, <<>>),
          MkFile(i, ".pdf", TRUE, TRUE, <<>>, << <<>> >>),
          MkFile(i, ".pdf", TRUE, TRUE, <<>>, << <<"a">>, <<"1">> >>),
          MkFile(i, ".pdf", TRUE, FALSE, <<>>, << <<"a">> >>),
          MkFile(i, ".json", TRUE, TRUE, <<" ", "1">>, <<>>),
          MkFile(i, ".json", TRUE, TRUE, <<"a">>, <<>>),
          MkFile(i, ".TXT", TRUE, TRUE, PatternText(1), <<>>),
          MkFile(i, ".bin", TRUE, TRUE, PatternText(1), <<>>),
          MkFile(i, ".txt", FALSE, FALSE, <<>>, <<>>)}

FileLists ==
    UNION {{fs \in [1..n -> UNION {FileChoices(i) : i \in 1..n}] :
                \A i \in 1..n : fs[i] \in FileChoices(i)} : n \in 0..MaxFiles}

KnowledgeDirs ==
    {[exists |-> FALSE, files |-> <<>>]}
    \cup {[exists |-> TRUE, files |-> fs] : fs \in FileLists}

(***************************************************************************)
(* process_documents run step by step, one directory entry per step.       *)
(***************************************************************************)
InitDocs ==
    /\ ValidConfig
    /\ ChunkIdle
    /\ CtxIdle
    /\ SysIdle
    /\ knowledge_dir \in KnowledgeDirs
    /\ file_index = 1
    /\ all_chunks = <<>>
    /\ pd_pc = "start"

\* document_processor.py:154-159
PdMissingDir ==
    /\ pd_pc = "start"
    /\ ~knowledge_dir.exists
    /\ pd_pc' = "done"
    /\ UNCHANGED <<cfgVars, chunkVars, ctxVars, sysVars, concVars, knowledge_dir, file_index, all_chunks>>

PdEnterLoop ==
    /\ pd_pc = "start"
    /\ knowledge_dir.exists
    /\ pd_pc' = "loop"
    /\ UNCHANGED <<cfgVars, chunkVars, ctxVars, sysVars, concVars, knowledge_dir, file_index, all_chunks>>

\* document_processor.py:162-196; an exception of the body leaves
\* process_documents (pd_pc = "raised")
PdNextFile ==
    /\ pd_pc = "loop"
    /\ file_index <= Len(knowledge_dir.files)
    /\ LET fc == FileChunks(knowledge_dir.files[file_index])
       IN  IF fc.raised
           THEN pd_pc' = "raised" /\ UNCHANGED <<all_chunks, file_index>>
           ELSE /\ all_chunks' = all_chunks \o fc.chunks
                /\ file_index' = file_index + 1
                /\ pd_pc' = pd_pc
    /\ UNCHANGED <<cfgVars, chunkVars, ctxVars, sysVars, concVars, knowledge_dir>>

\* document_processor.py:198-199
PdReturn ==
    /\ pd_pc = "loop"
    /\ file_index > Len(knowledge_dir.files)
    /\ pd_pc' = "done"
    /\ UNCHANGED <<cfgVars, chunkVars, ctxVars, sysVars, concVars, knowledge_dir, file_index, all_chunks>>

NextDocs == PdMissingDir \/ PdEnterLoop \/ PdNextFile \/ PdReturn

SpecDocs == InitDocs /\ [][NextDocs]_vars

\* the chunks in all_chunks that come from directory entry f
ChunksOfFile(f) ==
    SelectSeq(all_chunks, LAMBDA c : c.metadata.filepath = FileMetadata(f).filepath)

Files == knowledge_dir.files

\* C7 as stated: when process_documents has returned, every supported file
\* whose non-empty content is shorter than chunk_size has exactly one chunk,
\* holding the whole content.
C7_SingleChunkIfShorterThanChunkSize ==
    pd_pc = "done" =>
        \A i \in 1..Len(Files) :
            LET content == read_document(Files[i]).text
            IN  (is_supported(Files[i]) /\ content /= <<>>
                    /\ Len(content) < chunk_size)
                => /\ Len(ChunksOfFile(Files[i])) = 1
                   /\ ChunksOfFile(Files[i])[1].text = content

\* C7 amended: when process_documents has returned, every supported file
\* whose non-empty content is shorter than chunk_size and no longer than
\* chunk_size - chunk_overlap has exactly one chunk, holding the whole
\* content.
C7_SingleChunkIfWithinStride ==
    pd_pc = "done" =>
        \A i \in 1..Len(Files) :
            LET content == read_document(Files[i]).text
            IN  (is_supported(Files[i]) /\ content /= <<>>
                    /\ Len(content) < chunk_size
                    /\ Len(content) <= chunk_size - chunk_overlap)
                => /\ Len(ChunksOfFile(Files[i])) = 1
                   /\ ChunksOfFile(Files[i])[1].text = content

C7_Witness ==
    /\ pd_pc = "done"
    /\ chunk_overlap > 0
    /\ \E i \in 1..Len(Files) :
            /\ is_supported(Files[i])
            /\ Len(read_document(Files[i]).text) >= 2
            /\ Len(read_document(Files[i]).text) < chunk_size
            /\ Len(read_document(Files[i]).text) = chunk_size - chunk_overlap
            /\ Len(ChunksOfFile(Files[i])) = 1

\* reading f raises: the file cannot be opened or parsed
ReadFails(f) ==
    /\ is_supported(f)
    /\ \/ ~f.readable
       \/ f.suffix = ".json" /\ ~JsonValid(f.content)

\* f is read without error and has content
ReadWithContent(f) ==
    is_supported(f) /\ ~ReadFails(f) /\ read_document(f).text /= <<>>

ExpectedChunks ==
    Flatten([i \in 1..Len(Files) |->
                IF ReadWithContent(Files[i])
                THEN chunk_text(read_document(Files[i]).text, FileMetadata(Files[i]))
                ELSE <<>>])

DirWithoutFailingFiles ==
    [knowledge_dir EXCEPT !.files = SelectSeq(@, LAMBDA f : ~ReadFails(f))]

\* C10: no exception leaves process_documents, whatever files fail to read;
\* what it returns is exactly the chunks, in order, of the files read with
\* non-empty content; a file that fails to read has no chunk in it, and the
\* result is the one the directory without the failing files gives.
C10_ReadFailureDoesNotAbort ==
    /\ pd_pc /= "raised"
    /\ pd_pc = "done" =>
        /\ all_chunks = ExpectedChunks
        /\ \A i \in 1..Len(Files) :
                ReadFails(Files[i]) => ChunksOfFile(Files[i]) = <<>>
        /\ all_chunks = process_documents(DirWithoutFailingFiles).chunks

C10_Witness ==
    /\ pd_pc = "done"
    /\ Len(Files) >= 2
    /\ ReadFails(Files[1])
    /\ ReadWithContent(Files[2])
    /\ Len(all_chunks) >= 2

(***************************************************************************)
(* get_context_for_query applied to the results a query can return.        *)
(***************************************************************************)
Distances == {25, 150}

SampleTickers == {<<"a", "b">>, <<"A", "B">>, <<"a", "B">>, <<"b">>, <<>>}

ResultMetadatas ==
    {[filename |-> "aapl.txt"], [relative_path |-> "aapl.txt"]}
    \cup {[filename |-> "aapl.txt", ticker |-> t] : t \in SampleTickers}

SampleDoc == <<"a", "1">>

\* the dict collection.query returns for one query with n results
QueryResultsOfSize(n) ==
    {[documents |-> << [i \in 1..n |-> SampleDoc] >>,
      metadatas |-> << mds >>,
      distances |-> << ds >>] :
        mds \in [1..n -> ResultMetadatas], ds \in [1..n -> Distances]}

\* the dict query returns when the query embedding failed, lines 164-170
EmptyResults == [documents |-> <<>>, metadatas |-> <<>>, distances |-> <<>>]

InitContext ==
    /\ chunk_size = MaxChunkSize
    /\ chunk_overlap = 0
    /\ ChunkIdle
    /\ knowledge_dir = [exists |-> FALSE, files |-> <<>>]
    /\ DocsIdle
    /\ SysIdle
    /\ results \in {EmptyResults} \cup UNION {QueryResultsOfSize(n) : n \in 0..MaxResults}
    /\ ticker \in {None} \cup {Some(t) : t \in SampleTickers}
    /\ context = ""
    /\ cx_pc = "call"

\* vector_store.py:201-202
CtxNoResults ==
    /\ cx_pc = "call"
    /\ NoResults(results)
    /\ context' = FormatContext(results, ticker)
    /\ cx_pc' = "done"
    /\ UNCHANGED <<cfgVars, chunkVars, docVars, sysVars, concVars, results, ticker>>

\* vector_store.py:204-226
CtxFormat ==
    /\ cx_pc = "call"
    /\ ~NoResults(results)
    /\ context' = FormatContext(results, ticker)
    /\ cx_pc' = "done"
    /\ UNCHANGED <<cfgVars, chunkVars, docVars, sysVars, concVars, results, ticker>>

NextContext == CtxNoResults \/ CtxFormat

SpecContext == InitContext /\ [][NextContext]_vars

\* the letters of the model folded to lower case
LowerChar(c) == IF c = "A" THEN "a" ELSE IF c = "B" THEN "b" ELSE c

\* two strings are equal ignoring case
EqualIgnoringCase(x, y) ==
    Len(x) = Len(y) /\ \A i \in 1..Len(x) : LowerChar(x[i]) = LowerChar(y[i])

\* result number i (1-based) has a ticker field that differs from the ticker
\* asked for, ignoring case
HasOtherTicker(i) ==
    /\ "ticker" \in DOMAIN results.metadatas[1][i]
    /\ ~EqualIgnoringCase(results.metadatas[1][i].ticker, ticker.s)

\* the parts of the results that must appear, in order
ExpectedParts ==
    Flatten([i \in 1..Len(results.documents[1]) |->
                IF Truthy(ticker) /\ HasOtherTicker(i) THEN <<>>
                ELSE ContextParts(i - 1, results.documents[1][i],
                                  results.metadatas[1][i], results.distances[1][i])])

HasResults == results.documents /= <<>> /\ results.documents[1] /= <<>>

\* C3: when get_context_for_query has returned for a non-empty result list,
\* the context holds the parts of exactly the results that have no ticker
\* field or whose ticker field equals the ticker asked for ignoring case,
\* and of every result when no ticker (None or "") was given.
C3_ContextFilter ==
    (cx_pc = "done" /\ HasResults) => context = JoinLines(ExpectedParts)

C3_Witness ==
    /\ cx_pc = "done"
    /\ Truthy(ticker)
    /\ HasResults
    /\ Len(results.documents[1]) = 2
    /\ "ticker" \in DOMAIN results.metadatas[1][1]
    /\ results.metadatas[1][1].ticker /= ticker.s
    /\ EqualIgnoringCase(results.metadatas[1][1].ticker, ticker.s)
    /\ HasOtherTicker(2)
    /\ context = JoinLines(ContextParts(0, results.documents[1][1],
                            results.metadatas[1][1], results.distances[1][1]))

\* ---------------------------------------------------------------------
\* The vector store (src/vector_store.py)
\* ---------------------------------------------------------------------

\* what the environment does to one call: whether the embedding model
\* works, how ChromaDB behaves, and which record is nearest to the query
ChromaOutcomes == {"ok", "delete_fails", "add_fails", "read_fails"}

\* the faults of the environment, at most one in a call: the embedding
\* model fails, or one kind of ChromaDB call fails
Faults == {"none", "embedding"} \cup (ChromaOutcomes \ {"ok"})
EmbedOk(fault) == fault /= "embedding"
ChromaOf(fault) == IF fault \in ChromaOutcomes THEN fault ELSE "ok"

\* EmbeddingGenerator.generate_embedding: the vector of a text, or the
\* empty list when the model fails
generate_embedding(t, embed_ok) ==
    IF embed_ok THEN <<[of |-> t]>> ELSE <<>>

\* EmbeddingGenerator.generate_embeddings: one vector per text, or the
\* empty list when the model fails
generate_embeddings(texts, embed_ok) ==
    IF embed_ok THEN [i \in 1..Len(texts) |-> [of |-> texts[i]]] ELSE <<>>

\* a forced refresh that leaves the old collection in place
reset_collection_keeps(coll, chroma) == [raised |-> FALSE, collection |-> coll]

\* reset_collection: delete_collection, whose failure is only logged,
\* then create_collection, which raises when the collection still exists
reset_collection(coll, chroma) ==
    IF chroma = "delete_fails" THEN [raised |-> TRUE, collection |-> coll]
    ELSE [raised |-> FALSE, collection |-> <<>>]

\* an ingest that never skips
SkipsIngestNever(count, force_refresh) == FALSE

\* the early return of ingest_documents
SkipsIngest(count, force_refresh) == count > 0 /\ ~force_refresh

\* records that all carry the same id
RecordsSameId(cs, embeddings) ==
    [i \in 1..Len(cs) |->
        [id |-> "doc_0",
         document |-> cs[i].text,
         metadata |-> cs[i].metadata,
         embedding |-> embeddings[i]]]

\* the documents, metadatas, ids and embeddings handed to collection.add,
\* one record per chunk
Records(cs, embeddings) ==
    [i \in 1..Len(cs) |->
        [id |-> "doc_" \o ToString(i - 1),
         document |-> cs[i].text,
         metadata |-> cs[i].metadata,
         embedding |-> embeddings[i]]]

\* the message of the exception a failing ChromaDB call raises
ChromaError(call) ==
    IF call = "reset_collection" THEN "Collection stock_documents already exists"
    ELSE IF call = "add" THEN "could not write to the collection"
    ELSE "could not read the collection"

IngestResult(raised, coll, calls) ==
    [raised |-> raised, collection |-> coll, calls |-> calls,
     error |-> IF raised THEN ChromaError(calls[Len(calls)]) ELSE ""]

\* the entry of the calls made for a generate_embeddings that returned []
EmbeddingsEmpty == "generate_embeddings -> []"

\* an ingest that adds the chunks although it got no embeddings for them
IngestChunksNoAbort(coll, cs, embeddings, chroma, calls) ==
    IF embeddings = <<>>
    THEN IngestResult(FALSE,
                      coll \o Records(cs, [i \in 1..Len(cs) |-> [of |-> cs[i].text]]),
                      calls \o <<EmbeddingsEmpty, "add">>)
    ELSE IngestResult(FALSE, coll \o Records(cs, embeddings),
                      calls \o <<"generate_embeddings", "add">>)

\* lines 107-136: the chunks are embedded and added to the collection
IngestChunks(coll, cs, embeddings, chroma, calls) ==
    IF embeddings = <<>>
    THEN IngestResult(FALSE, coll, calls \o <<EmbeddingsEmpty>>)
    ELSE IF chroma = "add_fails"
    THEN IngestResult(TRUE, coll, calls \o <<"generate_embeddings", "add">>)
    ELSE IngestResult(FALSE, coll \o Records(cs, embeddings),
                      calls \o <<"generate_embeddings", "add">>)

\* lines 99-105: the chunks of the knowledge directory, if there are any
IngestProcessed(coll, pd, embed_ok, chroma, calls) ==
    IF pd.raised THEN IngestResult(TRUE, coll, calls)
    ELSE IF pd.chunks = <<>> THEN IngestResult(FALSE, coll, calls)
    ELSE IngestChunks(coll, pd.chunks,
                      generate_embeddings([i \in 1..Len(pd.chunks) |-> pd.chunks[i].text],
                                          embed_ok),
                      chroma, calls)

\* lines 90-97: the count and the early return
IngestAfterReset(reset, dir, force_refresh, embed_ok, chroma, calls) ==
    IF reset.raised THEN IngestResult(TRUE, reset.collection, calls)
    ELSE IF chroma = "read_fails"
    THEN IngestResult(TRUE, reset.collection, calls \o <<"count">>)
    ELSE IF SkipsIngest(Len(reset.collection), force_refresh)
    THEN IngestResult(FALSE, reset.collection, calls \o <<"count">>)
    ELSE IngestProcessed(reset.collection, process_documents(dir), embed_ok,
                         chroma, calls \o <<"count", "process_documents">>)

\* ingest_documents on a collection coll with the knowledge directory dir:
\* whether it raised, the collection afterwards and the calls it made
ingest_documents(coll, dir, force_refresh, embed_ok, chroma) ==
    IF force_refresh
    THEN IngestAfterReset(reset_collection(coll, chroma), dir, force_refresh,
                          embed_ok, chroma, <<"reset_collection">>)
    ELSE IngestAfterReset([raised |-> FALSE, collection |-> coll], dir,
                          force_refresh, embed_ok, chroma, <<>>)

TOP_K_RESULTS == 5

\* the distance of the i-th nearest record, in hundredths
DistanceOfRank(i) == 25 * i

\* collection.query: the n_results records nearest to the query embedding,
\* nearest first.  Which record is nearest depends on the embeddings: the
\* records are ranked in insertion order starting from record `nearest`.
CollectionQuery(coll, n_results, nearest) ==
    LET n == Min(n_results, Len(coll))
        rec(i) == coll[((nearest - 1 + i - 1) % Len(coll)) + 1]
    IN  [documents |-> << [i \in 1..n |-> rec(i).document] >>,
         metadatas |-> << [i \in 1..n |-> rec(i).metadata] >>,
         distances |-> << [i \in 1..n |-> DistanceOfRank(i)] >>]

QueryResult(raised, res, calls) ==
    [raised |-> raised, results |-> res, calls |-> calls,
     error |-> IF raised THEN ChromaError("query") ELSE ""]

\* the entry of the calls made for a generate_embedding that returned []
EmbeddingEmpty == "generate_embedding -> []"

\* a query that goes to the collection without looking at the embedding
query_unchecked(coll, query_text, embed_ok, chroma, nearest) ==
    IF chroma = "read_fails"
    THEN QueryResult(TRUE, EmptyResults,
                     <<IF embed_ok THEN "generate_embedding" ELSE EmbeddingEmpty,
                       "collection.query">>)
    ELSE QueryResult(FALSE, CollectionQuery(coll, TOP_K_RESULTS, nearest),
                     <<IF embed_ok THEN "generate_embedding" ELSE EmbeddingEmpty,
                       "collection.query">>)

\* query with n_results=None: [raised, results, calls, error]
query(coll, query_text, embed_ok, chroma, nearest) ==
    IF generate_embedding(query_text, embed_ok) = <<>>
    THEN QueryResult(FALSE, EmptyResults, <<EmbeddingEmpty>>)
    ELSE IF chroma = "read_fails"
    THEN QueryResult(TRUE, EmptyResults, <<"generate_embedding", "collection.query">>)
    ELSE QueryResult(FALSE, CollectionQuery(coll, TOP_K_RESULTS, nearest),
                     <<"generate_embedding", "collection.query">>)

\* lines 201-226 applied to what query returned
ContextOfQuery(r, tk) ==
    [raised |-> r.raised,
     context |-> IF r.raised THEN "" ELSE FormatContext(r.results, tk),
     calls |-> <<"get_context_for_query">> \o r.calls,
     error |-> r.error]

\* get_context_for_query: [raised, context, calls, error]
get_context_for_query(coll, q, tk, embed_ok, chroma, nearest) ==
    ContextOfQuery(query(coll, q, embed_ok, chroma, nearest), tk)

CHROMA_COLLECTION_NAME == "stock_documents"
CHROMA_DB_DIR == "chroma_db"

\* a stats dict that always reports the count of a new collection
StatsOfNewCollection(count) ==
    [collection_name |-> CHROMA_COLLECTION_NAME, document_count |-> 0,
     db_path |-> CHROMA_DB_DIR]

\* the dict get_collection_stats returns for a collection of count records
Stats(count) ==
    [collection_name |-> CHROMA_COLLECTION_NAME, document_count |-> count,
     db_path |-> CHROMA_DB_DIR]

\* get_collection_stats: [raised, stats, error]
get_collection_stats(coll, chroma) ==
    IF chroma = "read_fails"
    THEN [raised |-> TRUE, stats |-> NoStats, error |-> ChromaError("count")]
    ELSE [raised |-> FALSE, stats |-> Stats(Len(coll)), error |-> ""]

\* ---------------------------------------------------------------------
\* The LLM providers (src/llm_provider.py)
\* ---------------------------------------------------------------------
LLM_MODEL == "llama3.2"

\* what ollama.generate does: it returns a response or raises
LlmReturns == [raised |-> FALSE, text |-> "Buy."]
LlmRaises == [raised |-> TRUE, text |-> "connection refused"]
LlmOutcomes == {LlmReturns, LlmRaises}

\* the faults a stock query meets, at most one in a call
QueryFaults == {"none", "embedding", "read_fails", "llm"}
LlmOf(fault) == IF fault = "llm" THEN LlmRaises ELSE LlmReturns

\* OllamaProvider.generate: [raised, text], the response or the message of
\* the RuntimeError
OllamaGenerate(llm) ==
    IF llm.raised
    THEN [raised |-> TRUE,
          text |-> "Error: " \o llm.text \o "\n\n"
                   \o "Make sure Ollama is running: ollama serve\n"
                   \o "And model '" \o LLM_MODEL \o "' is installed: "
                   \o "ollama pull " \o LLM_MODEL]
    ELSE [raised |-> FALSE, text |-> llm.text]

\* OpenAIProvider.generate
OpenAIGenerate ==
    [raised |-> TRUE,
     text |-> "OpenAI provider not yet implemented. "
              \o "Install openai package and implement this method."]

\* self.llm_provider.generate of the provider get_llm_provider built
ProviderGenerate(provider, llm) ==
    IF provider = "ollama" THEN OllamaGenerate(llm) ELSE OpenAIGenerate

\* ---------------------------------------------------------------------
\* The MCP server (src/mcp_server.py)
\* ---------------------------------------------------------------------

\* arguments.get(key, ""): the default for an absent key, None for null
ArgGet(a) ==
    IF a.kind = "absent" THEN Some(<<>>)
    ELSE IF a.kind = "null" THEN None
    ELSE Some(a.s)

SystemPrompt(tk) ==
    "You are a knowledgeable financial analyst AI assistant "
    \o "specializing in stock market analysis.\n"
    \o "You have access to a knowledge base containing information "
    \o "about various stocks.\n\n"
    \o "Your task is to answer questions about stock ticker "
    \o Str(tk) \o " based on the provided context.\n\n"
    \o "Guidelines:\n"
    \o "- Be factual and base your answers on the provided context\n"
    \o "- If the context doesn't contain enough information, "
    \o "acknowledge the limitation\n"
    \o "- Provide clear, concise, and actionable insights\n"
    \o "- Use professional financial terminology when appropriate\n"
    \o "- If asked about predictions, provide balanced analysis "
    \o "with appropriate disclaimers\n"

UserPrompt(tk, q, ctx, user_context) ==
    "Stock Ticker: " \o Str(tk) \o "\n"
    \o "User Question: " \o Str(q) \o "\n\n"
    \o "Relevant Context from Knowledge Base:\n"
    \o ctx \o "\n"
    \o (IF Truthy(user_context)
        THEN "\n\nAdditional User Context: " \o Str(user_context.s) ELSE "")
    \o "\n\nPlease provide a comprehensive answer to the user's "
    \o "question based on the context provided."

Generated(n, g, prompt, system_prompt) ==
    [called |-> n, raised |-> g.raised, text |-> g.text,
     prompt |-> prompt, system_prompt |-> system_prompt]

\* the except branch left out: the provider's exception goes through
AnswerUncaught(g, prompt, system_prompt) ==
    [raised |-> g.raised, text |-> g.text,
     generate |-> Generated(1, g, prompt, system_prompt)]

\* lines 258-277: the one call of generate has returned or raised g
Answer(g, prompt, system_prompt) ==
    [raised |-> FALSE,
     text |-> IF g.raised THEN "Error generating response: " \o g.text
              ELSE g.text,
     generate |-> Generated(1, g, prompt, system_prompt)]

\* _generate_ai_response: [raised, text, generate], where generate records
\* the one call of the provider's generate
generate_ai_response(tk, q, ctx, user_context, provider, llm) ==
    Answer(ProviderGenerate(provider, llm),
           UserPrompt(tk, q, ctx, user_context), SystemPrompt(tk))

BothRequired == "Error: Both ticker and query are required"

HandlerResult(raised, txt, calls, ctx, gen) ==
    [raised |-> raised, text |-> txt, calls |-> calls, context |-> ctx,
     generate |-> gen]

\* a handler that only validates the ticker
InvalidQueryTickerOnly(tk, q) == tk = <<>>

\* line 185: not ticker or not query
InvalidQuery(tk, q) == tk = <<>> \/ ~Truthy(q)

\* lines 195-203: the answer generated for the context retrieved
HandlerAnswer(ctx, resp) ==
    HandlerResult(resp.raised, resp.text, ctx.calls \o <<"generate">>,
                  ctx.context, resp.generate)

\* lines 187-203: get_context_for_query has returned or raised ctx
HandleWithContext(tk, q, user_context, ctx, provider, llm) ==
    IF ctx.raised
    THEN HandlerResult(TRUE, ctx.error, ctx.calls, "", NotCalled)
    ELSE HandlerAnswer(ctx, generate_ai_response(tk, q, ctx.context, user_context,
                                                 provider, llm))

\* lines 180-203, for the upper-cased ticker tk
HandleTicker(coll, tk, q, user_context, provider, embed_ok, chroma, nearest, llm) ==
    IF InvalidQuery(tk, q)
    THEN HandlerResult(FALSE, BothRequired, <<>>, "", NotCalled)
    ELSE HandleWithContext(tk, q.s, user_context,
                           get_context_for_query(coll, tk \o <<" ">> \o q.s, Some(tk),
                                                 embed_ok, chroma, nearest),
                           provider, llm)

\* _handle_stock_query
handle_stock_query(coll, arguments, provider, embed_ok, chroma, nearest, llm) ==
    IF ArgGet(arguments.ticker).none
    THEN HandlerResult(TRUE, "'NoneType' object has no attribute 'upper'",
                       <<>>, "", NotCalled)
    ELSE HandleTicker(coll, Upper(ArgGet(arguments.ticker).s),
                      ArgGet(arguments.query), ArgGet(arguments.context),
                      provider, embed_ok, chroma, nearest, llm)

\* json.dumps(stats, indent=2)
JsonDumps(st) ==
    "{\n  \"collection_name\": \"" \o st.collection_name \o "\",\n"
    \o "  \"document_count\": " \o ToString(st.document_count) \o ",\n"
    \o "  \"db_path\": \"" \o st.db_path \o "\"\n}"

ToolNames == {"query_stock", "get_vector_store_stats", "refresh_knowledge_base"}

\* what call_tool did: the text of the TextContent returned, and whether an
\* exception left call_tool instead (the try of lines 135-165 covers every
\* branch, so none does)
ToolResult(txt, coll, calls, handler, ctx, gen, st) ==
    [raised |-> FALSE, text |-> txt, collection |-> coll, calls |-> calls,
     handler |-> handler, context |-> ctx, generate |-> gen, stats |-> st]

\* a query_stock that stores the query it answered in the collection
QueryStockResultPersisted(coll, h) ==
    ToolResult(IF h.raised THEN "Error: " \o h.text ELSE h.text,
               coll \o <<[id |-> "query_" \o ToString(Len(coll)),
                          document |-> <<>>,
                          metadata |-> [filename |-> "query"],
                          embedding |-> [of |-> <<>>]]>>,
               h.calls, IF h.raised THEN "raised" ELSE "returned",
               h.context, h.generate, NoStats)

\* lines 136-138
QueryStockResult(coll, h) ==
    ToolResult(IF h.raised THEN "Error: " \o h.text ELSE h.text, coll, h.calls,
               IF h.raised THEN "raised" ELSE "returned",
               h.context, h.generate, NoStats)

\* a stats branch outside the try: the exception of count() leaves call_tool
StatsResultUncaught(coll, st) ==
    [ToolResult(IF st.raised THEN st.error ELSE JsonDumps(st.stats),
                coll, <<"get_collection_stats">>, "none", "", NotCalled, st.stats)
     EXCEPT !.raised = st.raised]

\* lines 140-143
StatsResult(coll, st) ==
    ToolResult(IF st.raised THEN "Error: " \o st.error ELSE JsonDumps(st.stats),
               coll, <<"get_collection_stats">>, "none", "", NotCalled, st.stats)

\* lines 145-152
RefreshResult(ing) ==
    ToolResult(IF ing.raised THEN "Error: " \o ing.error
               ELSE "Knowledge base refreshed successfully",
               ing.collection, <<"ingest_documents">> \o ing.calls,
               "none", "", NotCalled, NoStats)

\* call_tool: the text of the one TextContent it returns, the collection
\* afterwards, and what it called on the way
call_tool(name, arguments, coll, dir, provider, embed_ok, chroma, nearest, llm) ==
    IF name = "query_stock"
    THEN QueryStockResult(coll, handle_stock_query(coll, arguments, provider,
                                                   embed_ok, chroma, nearest, llm))
    ELSE IF name = "get_vector_store_stats"
    THEN StatsResult(coll, get_collection_stats(coll, chroma))
    ELSE IF name = "refresh_knowledge_base"
    THEN RefreshResult(ingest_documents(coll, dir, TRUE, embed_ok, chroma))
    ELSE ToolResult("Unknown tool: " \o name, coll, <<>>, "none", "",
                    NotCalled, NoStats)

\* ---------------------------------------------------------------------
\* The system: one on-disk collection, the server's tools and one client
\* ---------------------------------------------------------------------
TxtFile(i, n) == MkFile(i, ".txt", TRUE, TRUE, PatternText(n), <<>>)

\* the knowledge directories the store is run on
StoreDirs ==
    {[exists |-> FALSE, files |-> <<>>],
     [exists |-> TRUE, files |-> <<>>],
     [exists |-> TRUE, files |-> <<TxtFile(1, MaxLen)>>],
     [exists |-> TRUE,
      files |-> <<MkFile(1, ".txt", TRUE, FALSE, PatternText(MaxLen), <<>>),
                  MkFile(2, ".md", TRUE, TRUE, PatternText(1), <<>>)>>],
     [exists |-> TRUE,
      files |-> <<TxtFile(1, 2),
                  MkFile(2, ".pdf", TRUE, TRUE, <<>>, << <<"a">>, <<"1">> >>)>>]}

Providers == {"ollama", "openai"}

Init ==
    /\ chunk_size = MaxChunkSize
    /\ chunk_overlap = 1
    /\ ChunkIdle
    /\ DocsIdle
    /\ CtxIdle
    /\ knowledge_dir \in StoreDirs
    /\ collection = <<>>
    /\ llm_provider \in Providers
    /\ session = "None"
    /\ stdio_context = FALSE
    /\ connected = FALSE
    /\ connect_returned = FALSE
    /\ last = NoOp
    /\ ConcIdle

unchangedBySys == <<cfgVars, chunkVars, ctxVars, file_index, all_chunks, pd_pc, concVars>>

\* the files of the knowledge directory are edited between two runs
KnowledgeChanges ==
    /\ knowledge_dir' \in StoreDirs \ {knowledge_dir}
    /\ last' = [NoOp EXCEPT !.op = "knowledge_changes"]
    /\ UNCHANGED <<unchangedBySys, collection, llm_provider, clientVars>>

\* main.py setup_knowledge_base: VectorStore().ingest_documents(force_refresh)
IngestDocuments ==
    \E force_refresh \in BOOLEAN, fault \in Faults :
        LET r == ingest_documents(collection, knowledge_dir, force_refresh,
                                  EmbedOk(fault), ChromaOf(fault))
        IN  /\ collection' = r.collection
            /\ last' = [NoOp EXCEPT !.op = "ingest_documents",
                                    !.force_refresh = force_refresh,
                                    !.status = IF r.raised THEN "raised" ELSE "returned",
                                    !.text = r.error,
                                    !.calls = r.calls,
                                    !.count_before = Len(collection)]
            /\ UNCHANGED <<unchangedBySys, knowledge_dir, llm_provider, clientVars>>

SampleTicker == <<"a", "b">>
SampleQuery == <<"a", "1">>
SampleContext == <<"a">>

QueryArgs(tk, q, ctx) == [ticker |-> tk, query |-> q, context |-> ctx]

\* the argument dicts an MCP client sends to query_stock
QueryArguments ==
    {QueryArgs(Absent, Absent, Absent),
     QueryArgs(StrArg(SampleTicker), Absent, Absent),
     QueryArgs(Absent, StrArg(SampleQuery), Absent),
     QueryArgs(StrArg(<<>>), StrArg(SampleQuery), Absent),
     QueryArgs(StrArg(SampleTicker), StrArg(<<>>), StrArg(SampleContext)),
     QueryArgs(Null, StrArg(SampleQuery), Absent),
     QueryArgs(StrArg(SampleTicker), Null, Absent),
     QueryArgs(StrArg(SampleTicker), StrArg(SampleQuery), Absent),
     QueryArgs(StrArg(SampleTicker), StrArg(SampleQuery), StrArg(SampleContext))}

\* which record is nearest to the query
Nearest == 1..Max(1, Min(2, Len(collection)))

LastOfTool(op, name, arguments, r) ==
    [NoOp EXCEPT !.op = op, !.name = name, !.arguments = arguments,
                 !.status = IF r.raised THEN "raised" ELSE "returned",
                 !.text = r.text, !.calls = r.calls, !.handler = r.handler,
                 !.context = r.context, !.generate = r.generate,
                 !.stats = r.stats, !.forwarded = (op = "client"),
                 !.count_before = Len(collection)]

\* an MCP client calls the tool query_stock
CallQueryStock ==
    \E arguments \in QueryArguments, fault \in QueryFaults, nearest \in Nearest :
        LET r == call_tool("query_stock", arguments, collection, knowledge_dir,
                           llm_provider, EmbedOk(fault), ChromaOf(fault),
                           nearest, LlmOf(fault))
        IN  /\ collection' = r.collection
            /\ last' = LastOfTool("call_tool", "query_stock", arguments, r)
            /\ UNCHANGED <<unchangedBySys, knowledge_dir, llm_provider, clientVars>>

\* an MCP client calls a tool that takes no arguments, or an unknown tool
CallOtherTool ==
    \E name \in (ToolNames \ {"query_stock"}) \cup {"get_price"},
       fault \in Faults :
        LET r == call_tool(name, NoArguments, collection, knowledge_dir,
                           llm_provider, EmbedOk(fault), ChromaOf(fault), 1,
                           LlmReturns)
        IN  /\ collection' = r.collection
            /\ last' = LastOfTool("call_tool", name, NoArguments, r)
            /\ UNCHANGED <<unchangedBySys, knowledge_dir, llm_provider, clientVars>>

\* ---------------------------------------------------------------------
\* The MCP client (src/mcp_client.py)
\* ---------------------------------------------------------------------
NotConnected == "Not connected to server. Call connect() first."

\* a guard that lets every call through
GuardFailsNever(sess) == FALSE

\* if not self.session
GuardFails(sess) == sess = "None"

ClientMethods == {"list_available_tools", "query_stock",
                  "get_vector_store_stats", "refresh_knowledge_base"}

\* the method raised before reaching the session
ClientRaisedNotConnected(method, arguments) ==
    [NoOp EXCEPT !.op = "client", !.name = method, !.arguments = arguments,
                 !.status = "raised", !.text = NotConnected]

\* the method reached the session, whose transport is not up
ClientRaisedBySession(method, arguments) ==
    [NoOp EXCEPT !.op = "client", !.name = method, !.arguments = arguments,
                 !.status = "raised", !.text = "Connection closed",
                 !.forwarded = TRUE]

MaxRecords == 2 * (MaxLen + 1)

\* json.loads of the text of the stats tool: the dict, or a decode error
\* for a text that is not the JSON of a stats dict
JsonLoads(txt) ==
    IF \E n \in 0..MaxRecords : JsonDumps(Stats(n)) = txt
    THEN [raised |-> FALSE,
          stats |-> Stats(CHOOSE n \in 0..MaxRecords : JsonDumps(Stats(n)) = txt)]
    ELSE [raised |-> TRUE, stats |-> NoStats]

\* the arguments query_stock(ticker, query, context) sends
ClientArguments(tk, q, ctx) ==
    QueryArgs(StrArg(tk), StrArg(q), IF Truthy(ctx) THEN StrArg(ctx.s) ELSE Absent)

ClientQueries ==
    {ClientArguments(<<>>, SampleQuery, None),
     ClientArguments(SampleTicker, <<>>, Some(SampleContext)),
     ClientArguments(SampleTicker, SampleQuery, None),
     ClientArguments(SampleTicker, SampleQuery, Some(SampleContext))}

\* query_stock
ClientQueryStock ==
    \E arguments \in ClientQueries, fault \in QueryFaults, nearest \in Nearest :
        LET r == call_tool("query_stock", arguments, collection, knowledge_dir,
                           llm_provider, EmbedOk(fault), ChromaOf(fault),
                           nearest, LlmOf(fault))
        IN  /\ last' = IF GuardFails(session)
                       THEN ClientRaisedNotConnected("query_stock", arguments)
                       ELSE IF ~connected
                       THEN ClientRaisedBySession("query_stock", arguments)
                       ELSE LastOfTool("client", "query_stock", arguments, r)
            /\ collection' = IF ~GuardFails(session) /\ connected
                             THEN r.collection ELSE collection
            /\ UNCHANGED <<unchangedBySys, knowledge_dir, llm_provider, clientVars>>

\* get_vector_store_stats
ClientStats ==
    \E fault \in {"none", "read_fails"} :
        LET r == call_tool("get_vector_store_stats", NoArguments, collection,
                           knowledge_dir, llm_provider, TRUE, ChromaOf(fault), 1,
                           LlmReturns)
            parsed == JsonLoads(r.text)
            sent == LastOfTool("client", "get_vector_store_stats", NoArguments, r)
        IN  /\ last' = IF GuardFails(session)
                       THEN ClientRaisedNotConnected("get_vector_store_stats", NoArguments)
                       ELSE IF ~connected
                       THEN ClientRaisedBySession("get_vector_store_stats", NoArguments)
                       ELSE IF parsed.raised
                       THEN [sent EXCEPT !.status = "raised",
                                         !.text = "Expecting value: line 1 column 1 (char 0)"]
                       ELSE [sent EXCEPT !.stats = parsed.stats]
            /\ UNCHANGED <<unchangedBySys, knowledge_dir, collection, llm_provider,
                           clientVars>>

\* refresh_knowledge_base
ClientRefresh ==
    \E fault \in Faults :
        LET r == call_tool("refresh_knowledge_base", NoArguments, collection,
                           knowledge_dir, llm_provider, EmbedOk(fault),
                           ChromaOf(fault), 1, LlmReturns)
        IN  /\ last' = IF GuardFails(session)
                       THEN ClientRaisedNotConnected("refresh_knowledge_base", NoArguments)
                       ELSE IF ~connected
                       THEN ClientRaisedBySession("refresh_knowledge_base", NoArguments)
                       ELSE LastOfTool("client", "refresh_knowledge_base", NoArguments, r)
            /\ collection' = IF ~GuardFails(session) /\ connected
                             THEN r.collection ELSE collection
            /\ UNCHANGED <<unchangedBySys, knowledge_dir, llm_provider, clientVars>>

\* list_available_tools: the names of result.tools
ClientListTools ==
    /\ last' = IF GuardFails(session)
               THEN ClientRaisedNotConnected("list_available_tools", NoArguments)
               ELSE IF ~connected
               THEN ClientRaisedBySession("list_available_tools", NoArguments)
               ELSE [NoOp EXCEPT !.op = "client", !.name = "list_available_tools",
                                 !.text = "query_stock, get_vector_store_stats, "
                                          \o "refresh_knowledge_base",
                                 !.forwarded = TRUE]
    /\ UNCHANGED <<unchangedBySys, knowledge_dir, collection, llm_provider, clientVars>>

ConnectOutcomes == {"ok", "stdio_fails", "initialize_fails"}

\* connect: stdio_context is assigned, then entered; the session is
\* assigned, entered and initialized.  A step that raises leaves the
\* assignments made before it.
ClientConnect ==
    \E outcome \in ConnectOutcomes :
        /\ stdio_context' = TRUE
        /\ session' = IF outcome = "stdio_fails" THEN session ELSE "ClientSession"
        /\ connected' = IF outcome = "stdio_fails" THEN connected ELSE outcome = "ok"
        /\ connect_returned' = (outcome = "ok")
        /\ last' = [NoOp EXCEPT !.op = "connect",
                                !.status = IF outcome = "ok" THEN "returned" ELSE "raised",
                                !.text = IF outcome = "ok" THEN "" ELSE outcome]
        /\ UNCHANGED <<unchangedBySys, knowledge_dir, collection, llm_provider>>

\* disconnect: exits the session and the stdio context if they are there
ClientDisconnect ==
    /\ connected' = FALSE
    /\ connect_returned' = FALSE
    /\ last' = [NoOp EXCEPT !.op = "disconnect"]
    /\ UNCHANGED <<unchangedBySys, knowledge_dir, collection, llm_provider,
                   session, stdio_context>>

Next ==
    \/ KnowledgeChanges
    \/ IngestDocuments
    \/ CallQueryStock
    \/ CallOtherTool
    \/ ClientQueryStock
    \/ ClientStats
    \/ ClientRefresh
    \/ ClientListTools
    \/ ClientConnect
    \/ ClientDisconnect

Spec == Init /\ [][Next]_vars

\* ---------------------------------------------------------------------
\* Properties of the system
\* ---------------------------------------------------------------------

\* the records one successful ingest of the current knowledge directory adds
CurrentChunks == process_documents(knowledge_dir).chunks

CurrentRecords ==
    Records(CurrentChunks,
            generate_embeddings([i \in 1..Len(CurrentChunks) |-> CurrentChunks[i].text],
                                TRUE))

\* no chunk is in the collection twice
NoDuplicateRecords ==
    \A i, j \in 1..Len(collection) :
        (collection[i].document = collection[j].document
         /\ collection[i].metadata = collection[j].metadata) => i = j

\* the step is a non-forced ingest_documents on a non-empty collection
NonForcedIngestOnNonEmpty ==
    /\ last'.op = "ingest_documents"
    /\ ~last'.force_refresh
    /\ collection /= <<>>

\* C1: a non-forced ingest_documents on a collection that already holds
\* records leaves the collection exactly as it was (same records, same
\* count), and in no reachable state does the collection hold the same
\* chunk twice.
C1_NonForcedIngestIdempotent ==
    /\ [](NoDuplicateRecords)
    /\ [][NonForcedIngestOnNonEmpty => collection' = collection]_vars

C1_Witness ==
    /\ last.op = "ingest_documents"
    /\ ~last.force_refresh
    /\ last.status = "returned"
    /\ last.count_before > 1
    /\ last.calls = <<"count">>
    /\ Len(collection) = last.count_before

\* a forced ingest_documents has just returned, called directly or by the
\* refresh_knowledge_base tool
ForcedIngestReturned ==
    IF last.op = "ingest_documents"
    THEN last.force_refresh /\ last.status = "returned"
    ELSE /\ last.name = "refresh_knowledge_base"
         /\ last.calls /= <<>>
         /\ last.text = "Knowledge base refreshed successfully"

\* the forced ingest stopped because generate_embeddings returned no vectors
EmbeddingsFailed == last.calls[Len(last.calls)] = EmbeddingsEmpty

\* C2 as stated: after a forced ingest_documents returns, the collection
\* holds exactly one record per chunk of the current knowledge directory
\* and nothing else.
C2_RefreshHoldsCurrentChunks ==
    ForcedIngestReturned => collection = CurrentRecords

\* C2: after a forced ingest_documents returns, no record from before the
\* call remains; the collection holds exactly one record per chunk of the
\* current knowledge directory when generate_embeddings succeeded, and is
\* empty when it failed.
C2_RefreshHoldsCurrentChunksOrNothing ==
    ForcedIngestReturned =>
        collection = IF EmbeddingsFailed THEN <<>> ELSE CurrentRecords

C2_Witness ==
    /\ ForcedIngestReturned
    /\ ~EmbeddingsFailed
    /\ last.count_before > 0
    /\ collection /= <<>>
    /\ Len(collection) /= last.count_before
    /\ collection = CurrentRecords

\* the last operation is a query_stock call that reached the tool handler
QueryStockHandled ==
    /\ last.name = "query_stock"
    /\ last.handler /= "none"

\* the argument is absent or the empty string
AbsentOrEmpty(a) == a.kind = "absent" \/ (a.kind = "str" /\ a.s = <<>>)

\* both arguments are typed as the tool's inputSchema declares (strings)
\* where given, and the ticker or the query is absent or empty
MissingTickerOrQuery ==
    /\ last.arguments.ticker.kind /= "null"
    /\ last.arguments.query.kind /= "null"
    /\ AbsentOrEmpty(last.arguments.ticker) \/ AbsentOrEmpty(last.arguments.query)

GenerateCalled == QueryStockHandled /\ last.generate.called > 0

\* C8: in a valid query_stock call generate is called exactly once; when it
\* raises, the handler does not raise and the call returns "Error generating
\* response: " followed by the exception's message; when it succeeds, the
\* call returns its text verbatim.
C8_LlmFailureReturnedInline ==
    GenerateCalled =>
        /\ last.generate.called = 1
        /\ last.handler = "returned"
        /\ last.status = "returned"
        /\ last.text = IF last.generate.raised
                       THEN "Error generating response: " \o last.generate.text
                       ELSE last.generate.text

C8_Witness ==
    /\ GenerateCalled
    /\ llm_provider = "ollama"
    /\ last.generate.raised
    /\ last.handler = "returned"
    /\ last.text = "Error generating response: Error: connection refused\n\n"
                   \o "Make sure Ollama is running: ollama serve\n"
                   \o "And model 'llama3.2' is installed: ollama pull llama3.2"

\* a method of the client was called and connect has never been called:
\* connect assigns stdio_context before anything else
CalledBeforeAnyConnect(l, ctx) ==
    /\ l.op = "client"
    /\ l.name \in ClientMethods
    /\ ~ctx

\* C9: on a client on which connect has never been called, each of
\* list_available_tools, query_stock, get_vector_store_stats and
\* refresh_knowledge_base raises RuntimeError "Not connected to server. Call
\* connect() first." and nothing reaches the server: the call is not handed
\* to the session, no tool runs and the collection is untouched.
C9_ConnectFirstGuard ==
    /\ [](CalledBeforeAnyConnect(last, stdio_context) =>
            /\ last.status = "raised"
            /\ last.text = "Not connected to server. Call connect() first."
            /\ ~last.forwarded
            /\ last.calls = <<>>
            /\ last.handler = "none")
    /\ [][CalledBeforeAnyConnect(last', stdio_context') =>
            collection' = collection]_vars

C9_Witness ==
    /\ CalledBeforeAnyConnect(last, stdio_context)
    /\ last.name = "refresh_knowledge_base"
    /\ session = "None"
    /\ collection /= <<>>
    /\ last.status = "raised"
    /\ last.text = NotConnected

\* the last operation ran ingest_documents, called directly or by the
\* refresh_knowledge_base tool, and its generate_embeddings returned []
IngestEmbeddingsFailed ==
    /\ \/ last.op = "ingest_documents"
       \/ last.name = "refresh_knowledge_base"
    /\ \E i \in 1..Len(last.calls) : last.calls[i] = EmbeddingsEmpty

\* C11: when generate_embeddings returns an empty list during
\* ingest_documents, the ingest returns without raising and without calling
\* add on the collection, and the collection holds no record: the ingest
\* got as far as the embeddings only on an empty or a just-reset collection.
C11_EmbeddingFailureAbortsIngest ==
    IngestEmbeddingsFailed =>
        /\ last.status = "returned"
        /\ last.text \in {"", "Knowledge base refreshed successfully"}
        /\ \A i \in 1..Len(last.calls) : last.calls[i] /= "add"
        /\ last.calls[Len(last.calls)] = EmbeddingsEmpty
        /\ collection = <<>>

C11_Witness ==
    /\ last.op = "ingest_documents"
    /\ IngestEmbeddingsFailed
    /\ ~last.force_refresh
    /\ last.status = "returned"
    /\ CurrentChunks /= <<>>
    /\ collection = <<>>

\* the last operation is a stock query whose generate_embedding returned []
QueryEmbeddingFailed ==
    /\ QueryStockHandled
    /\ \E i \in 1..Len(last.calls) : last.calls[i] = EmbeddingEmpty

\* what query and get_context_for_query return on the current collection
\* when generate_embedding returns [], whatever ChromaDB would do
QueryWithoutEmbedding(chroma) ==
    query(collection, SampleTicker \o <<" ">> \o SampleQuery, FALSE, chroma, 1)

ContextWithoutEmbedding(chroma) ==
    get_context_for_query(collection, SampleTicker \o <<" ">> \o SampleQuery,
                          Some(SampleTicker), FALSE, chroma, 1)

\* C12: when generate_embedding returns an empty list, query returns empty
\* documents, metadatas and distances without querying the collection and
\* without raising, and get_context_for_query returns "No relevant context
\* found." without raising; the stock query goes on to the provider with
\* that context.
C12_QueryEmbeddingFailureNoCrash ==
    /\ \A chroma \in ChromaOutcomes :
        /\ QueryWithoutEmbedding(chroma).results
              = [documents |-> <<>>, metadatas |-> <<>>, distances |-> <<>>]
        /\ ~QueryWithoutEmbedding(chroma).raised
        /\ QueryWithoutEmbedding(chroma).calls = <<EmbeddingEmpty>>
        /\ ContextWithoutEmbedding(chroma).context = "No relevant context found."
        /\ ~ContextWithoutEmbedding(chroma).raised
    /\ QueryEmbeddingFailed =>
        /\ last.calls = <<"get_context_for_query", EmbeddingEmpty, "generate">>
        /\ last.context = "No relevant context found."
        /\ last.handler = "returned"
        /\ last.generate.called = 1

C12_Witness ==
    /\ QueryEmbeddingFailed
    /\ collection /= <<>>
    /\ last.context = NoContextFound
    /\ last.handler = "returned"
    /\ last.text = "Buy."

\* ---------------------------------------------------------------------
\* More properties of chunk_text
\* ---------------------------------------------------------------------

\* the position in the text of the first character of chunk i (1-based)
\* and the position after its last character
ChunkFrom(i) == chunks[i].metadata.start_char
ChunkTo(i) == chunks[i].metadata.start_char + Len(chunks[i].text)

\* the number of positions of the text that chunks i and i + 1 both cover
SharedCount(i) == Max(0, Min(ChunkTo(i), ChunkTo(i + 1)) - ChunkFrom(i + 1))

\* the last chunk_overlap characters of chunk i are the first chunk_overlap
\* characters of chunk i + 1, and the two share no other position
SharesOverlap(i) ==
    /\ SharedCount(i) = chunk_overlap
    /\ Len(chunks[i].text) >= chunk_overlap
    /\ Len(chunks[i + 1].text) >= chunk_overlap
    /\ SubSeq(chunks[i].text, Len(chunks[i].text) - chunk_overlap + 1,
              Len(chunks[i].text))
         = SubSeq(chunks[i + 1].text, 1, chunk_overlap)

\* C13 as stated: when chunk_text has returned and 0 <= chunk_overlap <
\* chunk_size, any two consecutive chunks share exactly chunk_overlap
\* characters, the last ones of the first and the first ones of the second.
C13_ConsecutiveChunksOverlap ==
    (pc = "done" /\ chunk_overlap < chunk_size) =>
        \A i \in 1..(Len(chunks) - 1) : SharesOverlap(i)

\* C13: when chunk_text has returned and 0 <= chunk_overlap < chunk_size,
\* any two consecutive chunks of which the first has the full chunk_size
\* characters share exactly chunk_overlap characters, the last ones of the
\* first and the first ones of the second.
C13_FullChunksOverlap ==
    (pc = "done" /\ chunk_overlap < chunk_size) =>
        \A i \in 1..(Len(chunks) - 1) :
            Len(chunks[i].text) = chunk_size => SharesOverlap(i)

C13_Witness ==
    /\ pc = "done"
    /\ 0 < chunk_overlap /\ chunk_overlap < chunk_size
    /\ Len(chunks) >= 3
    /\ Len(chunks[1].text) = chunk_size
    /\ SharesOverlap(1)
    /\ Len(chunks[2].text) < chunk_size
    /\ ~SharesOverlap(2)

\* chunk_text is run to its end: a loop that can make a step makes it
SpecChunkFair == InitChunk /\ [][NextChunk]_vars /\ WF_vars(NextChunk)

\* the loop of chunk_text can exit: the text is empty or the stride is positive
LoopCanExit == text = <<>> \/ chunk_overlap < chunk_size

\* C14: chunk_text returns if and only if the text is empty or chunk_overlap
\* < chunk_size.  Then it returns after at most one iteration per character;
\* for a non-empty text with chunk_overlap >= chunk_size nothing stops the
\* loop: start never goes forward, stays below the length of the text, and
\* chunk_text never returns.
C14_ChunkingTermination ==
    /\ LoopCanExit ~> (pc = "done")
    /\ [](LoopCanExit => chunk_id <= Len(text))
    /\ [](~LoopCanExit => /\ pc = "loop"
                          /\ start <= 0
                          /\ start < Len(text)
                          /\ Len(chunks) = chunk_id)

C14_Witness ==
    /\ ~LoopCanExit
    /\ chunk_overlap > chunk_size
    /\ chunk_id = MaxIter
    /\ start < 0
    /\ pc = "loop"

\* ---------------------------------------------------------------------
\* More properties of the system
\* ---------------------------------------------------------------------

\* the ids of the records of a collection
Ids(coll) == {coll[i].id : i \in 1..Len(coll)}

\* the ids are pairwise distinct and are doc_0 .. doc_(n-1) for n records
IdsSequential ==
    /\ \A i, j \in 1..Len(collection) :
            collection[i].id = collection[j].id => i = j
    /\ Ids(collection) = {"doc_" \o ToString(i - 1) : i \in 1..Len(collection)}

\* the step is an ingest whose add on the collection succeeded
IngestAdds ==
    /\ \/ last'.op = "ingest_documents"
       \/ last'.name = "refresh_knowledge_base"
    /\ \E i \in 1..Len(last'.calls) : last'.calls[i] = "add"
    /\ last'.status = "returned"
    /\ last'.text \in {"", "Knowledge base refreshed successfully"}

\* the collection add was called on: the old one, or the empty one a forced
\* ingest created
AddedTo ==
    IF last'.op = "ingest_documents" /\ ~last'.force_refresh
    THEN collection ELSE <<>>

\* C15: in every state reached by forced and non-forced ingests on one
\* store, whether they succeed, fail or find no documents, the ids of the
\* records are pairwise distinct and are exactly doc_0 .. doc_(n-1) for the
\* n records present; an ingest that adds records keeps the records add was
\* called on and adds no id that is among them.
C15_RecordIdsUnique ==
    /\ [](IdsSequential)
    /\ [][IngestAdds =>
            /\ Len(collection') > Len(AddedTo)
            /\ SubSeq(collection', 1, Len(AddedTo)) = AddedTo
            /\ \A i \in (Len(AddedTo) + 1)..Len(collection') :
                    collection'[i].id \notin Ids(AddedTo)]_vars

C15_Witness ==
    /\ last.op = "ingest_documents"
    /\ last.force_refresh
    /\ last.status = "returned"
    /\ last.count_before > 0
    /\ Len(collection) >= 3
    /\ last.count_before /= Len(collection)
    /\ IdsSequential

\* ---------------------------------------------------------------------
\* C16: statistics
\* ---------------------------------------------------------------------
\* the last operation was the stats tool (called on the server or through
\* the client) and it returned the stats dict
StatsReported ==
    /\ last.name = "get_vector_store_stats"
    /\ last.stats /= NoStats

\* C16: in every reachable state get_collection_stats reports
\* document_count equal to the number of records currently in the
\* collection, both when it is read off the current collection and in the
\* answer of the stats tool that was just called; a collection that was
\* just created or just reset reports document_count = 0.
C16_StatsCountsRecords ==
    /\ ~get_collection_stats(collection, "ok").raised
    /\ get_collection_stats(collection, "ok").stats.document_count
           = Len(collection)
    /\ StatsReported =>
           /\ last.stats.document_count = Len(collection)
           /\ last.stats.collection_name = CHROMA_COLLECTION_NAME
           /\ last.stats.db_path = CHROMA_DB_DIR
    /\ get_collection_stats(reset_collection(collection, "ok").collection,
                            "ok").stats.document_count = 0
    /\ get_collection_stats(<<>>, "ok").stats.document_count = 0

C16_Witness ==
    /\ StatsReported
    /\ last.op = "client"
    /\ last.stats.document_count = Len(collection)
    /\ Len(collection) > 1

\* ---------------------------------------------------------------------
\* The server's event loop (src/mcp_server.py): the requests of the
\* clients arrive in any order; each is handled by call_tool as a task of
\* the one event loop, which runs one task until it suspends or returns
\* ---------------------------------------------------------------------
\* a refresh that suspends after dropping the collection, as it would if
\* the re-ingestion were awaited
SuspendsBeforeIngest(name, at) == name = "refresh_knowledge_base" /\ at = "ingest"

\* whether the handler of tool name suspends before its step `at`: the
\* handlers call the store and the provider synchronously, and the one
\* await of call_tool awaits a coroutine that itself awaits nothing
SuspendsAt(name, at) == FALSE

\* the first step of the handler of a tool
FirstStep(name) ==
    IF name = "query_stock" THEN "get_context"
    ELSE IF name = "get_vector_store_stats" THEN "count"
    ELSE "reset"

\* the handler of request i is between its entry and its return
InHandler(i) == tasks[i].pc \notin {"none", "pending", "done"}

\* a refresh has dropped the collection and not yet re-added
RefreshOpen ==
    \E j \in 1..MaxTasks :
        tasks[j].name = "refresh_knowledge_base" /\ tasks[j].pc = "ingest"

\* the event loop after request i moved to step `at`
LoopAfter(i, at) ==
    IF at = "done" \/ SuspendsAt(tasks[i].name, at) THEN 0 ELSE i

Moved(i, at) == [tasks EXCEPT ![i].pc = at]

Observed(i, at) ==
    [tasks EXCEPT ![i].pc = at, ![i].seen = Len(collection),
                  ![i].seen_mid = RefreshOpen]

unchangedByServer ==
    <<cfgVars, chunkVars, docVars, ctxVars, llm_provider, clientVars, last>>

\* a client sends a tool request
ServeArrive ==
    \E i \in 1..MaxTasks, name \in ToolNames :
        /\ tasks[i].pc = "none"
        /\ \A j \in 1..(i - 1) : tasks[j].pc /= "none"
        /\ tasks' = [tasks EXCEPT ![i].name = name, ![i].pc = "pending"]
        /\ UNCHANGED <<unchangedByServer, collection, loop, writers, disk>>

\* the idle event loop runs a request that is waiting: call_tool is
\* entered, or resumed where it suspended
ServeSchedule ==
    \E i \in 1..MaxTasks :
        /\ loop = 0
        /\ tasks[i].pc \notin {"none", "done"}
        /\ loop' = i
        /\ tasks' = IF tasks[i].pc = "pending"
                    THEN Moved(i, FirstStep(tasks[i].name))
                    ELSE tasks
        /\ UNCHANGED <<unchangedByServer, collection, writers, disk>>

\* _handle_stock_query: get_context_for_query reads the collection
StockQueryContext ==
    /\ loop /= 0
    /\ tasks[loop].pc = "get_context"
    /\ tasks' = Observed(loop, "generate")
    /\ loop' = LoopAfter(loop, "generate")
    /\ UNCHANGED <<unchangedByServer, collection, writers, disk>>

\* _handle_stock_query: _generate_ai_response, then the return
StockQueryGenerate ==
    /\ loop /= 0
    /\ tasks[loop].pc = "generate"
    /\ tasks' = Moved(loop, "done")
    /\ loop' = 0
    /\ UNCHANGED <<unchangedByServer, collection, writers, disk>>

\* get_vector_store_stats: get_collection_stats counts the collection
StatsCount ==
    /\ loop /= 0
    /\ tasks[loop].pc = "count"
    /\ tasks' = Observed(loop, "done")
    /\ loop' = 0
    /\ UNCHANGED <<unchangedByServer, collection, writers, disk>>

\* refresh_knowledge_base: ingest_documents(force_refresh=True) drops the
\* collection
RefreshReset ==
    /\ loop /= 0
    /\ tasks[loop].pc = "reset"
    /\ collection' = reset_collection(collection, "ok").collection
    /\ tasks' = Moved(loop, "ingest")
    /\ loop' = LoopAfter(loop, "ingest")
    /\ UNCHANGED <<unchangedByServer, writers, disk>>

\* refresh_knowledge_base: the rest of ingest_documents, then the return
RefreshIngest ==
    \E fault \in {"none", "embedding"} :
        /\ loop /= 0
        /\ tasks[loop].pc = "ingest"
        /\ collection' = IngestAfterReset([raised |-> FALSE, collection |-> collection],
                                          knowledge_dir, TRUE, EmbedOk(fault),
                                          "ok", <<>>).collection
        /\ tasks' = Moved(loop, "done")
        /\ loop' = 0
        /\ UNCHANGED <<unchangedByServer, writers, disk>>

\* the server starts on a collection that an earlier run has ingested
InitServer ==
    /\ chunk_size = MaxChunkSize
    /\ chunk_overlap = 1
    /\ ChunkIdle
    /\ DocsIdle
    /\ CtxIdle
    /\ knowledge_dir \in StoreDirs
    /\ collection = ingest_documents(<<>>, knowledge_dir, FALSE, TRUE, "ok").collection
    /\ llm_provider = "ollama"
    /\ session = "None"
    /\ stdio_context = FALSE
    /\ connected = FALSE
    /\ connect_returned = FALSE
    /\ last = NoOp
    /\ ConcIdle

NextServer ==
    \/ ServeArrive
    \/ ServeSchedule
    \/ StockQueryContext
    \/ StockQueryGenerate
    \/ StatsCount
    \/ RefreshReset
    \/ RefreshIngest

SpecServer == InitServer /\ [][NextServer]_vars

\* ---------------------------------------------------------------------
\* C17: one caller at a time on the server
\* ---------------------------------------------------------------------
\* the requests whose handler has been entered and has not returned
Handling == {i \in 1..MaxTasks : InHandler(i)}

\* a step in which the event loop leaves a handler or enters one
LoopSwitches == loop' /= loop

\* C17: the tool handlers have no suspension point between entry and
\* return: under any arrival order of query_stock, get_vector_store_stats
\* and refresh_knowledge_base requests at most one handler is between its
\* entry and its return, and it is the one holding the event loop; the
\* event loop leaves a handler only when that handler has returned; and
\* no query or stats handler has read the collection between a refresh's
\* drop and its re-add.
C17_OneHandlerAtATime ==
    /\ [](/\ Cardinality(Handling) <= 1
          /\ \A i \in Handling : loop = i
          /\ \A i \in 1..MaxTasks : ~tasks[i].seen_mid
          /\ RefreshOpen => loop \in Handling
          /\ \A i \in Handling : RefreshOpen => tasks[i].pc = "ingest")
    /\ [][(LoopSwitches /\ loop /= 0) =>
            (loop' = 0 /\ tasks'[loop].pc = "done")]_vars
    /\ [][\A i \in 1..MaxTasks :
            (tasks[i].pc = "pending" /\ InHandler(i)') => Handling = {}]_vars

\* a query read the collection after a refresh of a non-empty collection
\* had arrived before it and had returned
C17_Witness ==
    /\ tasks[1].name = "refresh_knowledge_base"
    /\ tasks[1].pc = "done"
    /\ tasks[2].name = "query_stock"
    /\ tasks[2].pc = "generate"
    /\ tasks[3].pc = "pending"
    /\ tasks[2].seen = Len(collection)
    /\ tasks[2].seen > 0
    /\ loop = 2

\* ---------------------------------------------------------------------
\* Two processes on one chroma_dir (src/main.py setup_knowledge_base run
\* twice, or next to the server): each constructs its own VectorStore and
\* runs ingest_documents; their ChromaDB calls interleave freely
\* ---------------------------------------------------------------------
\* what a ChromaDB call does that the library leaves to its version: a
\* call through the handle of a deleted collection, or an add of ids that
\* exist, either raises or is tolerated (reads nothing, writes nothing)
VersionOutcomes == {"raises", "tolerated"}

\* the handle of process w refers to the collection that is on disk
HandleValid(w) == disk.exists /\ disk.gen = writers[w].handle

\* both processes are past their emptiness check (or their reset), and
\* neither has called add
BothPassed(ws) == \A w \in Writers : ws[w].pc \in {"process", "add"}

\* an add that reads the count again
CountReadAgain(counted, now) == now

\* the count the add relies on: the one read at line 91, which is not
\* read again before line 131
CountAtAdd(counted, now) == counted

WriterEnds(w, status) == [writers[w] EXCEPT !.pc = "done", !.status = status]

\* process w moves on; the disk remembers whether both processes have
\* been past the check together
WriterMoves(w, rec, d) ==
    /\ writers' = [writers EXCEPT ![w] = rec]
    /\ disk' = [d EXCEPT !.raced = d.raced \/ BothPassed([writers EXCEPT ![w] = rec])]

unchangedByWriters ==
    <<cfgVars, chunkVars, docVars, ctxVars, llm_provider, clientVars, last,
      tasks, loop>>

\* VectorStore.__init__: get the collection, or create it when there is
\* none; then ingest_documents(force_refresh) is entered
WriterOpen(w) ==
    \E force_refresh \in BOOLEAN :
        /\ writers[w].pc = "idle"
        /\ WriterMoves(w,
                       [writers[w] EXCEPT
                            !.pc = IF force_refresh THEN "delete" ELSE "count",
                            !.force_refresh = force_refresh,
                            !.handle = IF disk.exists THEN disk.gen ELSE w],
                       IF disk.exists THEN disk
                       ELSE [disk EXCEPT !.exists = TRUE, !.gen = w])
        /\ UNCHANGED <<unchangedByWriters, collection>>

\* reset_collection: delete_collection, whose failure is only logged
WriterDelete(w) ==
    /\ writers[w].pc = "delete"
    /\ collection' = <<>>
    /\ WriterMoves(w, [writers[w] EXCEPT !.pc = "create"],
                   [disk EXCEPT !.exists = FALSE])
    /\ UNCHANGED unchangedByWriters

\* reset_collection: create_collection raises when the name exists
WriterCreate(w) ==
    /\ writers[w].pc = "create"
    /\ IF disk.exists
       THEN WriterMoves(w, WriterEnds(w, "raised"), disk)
       ELSE WriterMoves(w, [writers[w] EXCEPT !.pc = "count", !.handle = w],
                        [disk EXCEPT !.exists = TRUE, !.gen = w])
    /\ UNCHANGED <<unchangedByWriters, collection>>

\* the writer after collection.count() gave count: the early return
WriterCounted(w, count) ==
    IF SkipsIngest(count, writers[w].force_refresh)
    THEN [WriterEnds(w, "returned") EXCEPT !.count = count]
    ELSE [writers[w] EXCEPT !.pc = "process", !.count = count]

\* lines 90-97
WriterCount(w) ==
    \E stale \in VersionOutcomes :
        /\ writers[w].pc = "count"
        /\ WriterMoves(w,
                       IF HandleValid(w) THEN WriterCounted(w, Len(collection))
                       ELSE IF stale = "raises" THEN WriterEnds(w, "raised")
                       ELSE WriterCounted(w, 0),
                       disk)
        /\ UNCHANGED <<unchangedByWriters, collection>>

\* the writer after process_documents gave pd and the chunks were embedded
WriterPrepared(w, pd, embed_ok) ==
    IF pd.raised THEN WriterEnds(w, "raised")
    ELSE IF pd.chunks = <<>> \/ ~embed_ok THEN WriterEnds(w, "returned")
    ELSE [writers[w] EXCEPT
             !.pc = "add",
             !.batch = Records(pd.chunks,
                               generate_embeddings([i \in 1..Len(pd.chunks) |->
                                                       pd.chunks[i].text], TRUE))]

\* lines 99-125
WriterProcess(w) ==
    \E fault \in {"none", "embedding"} :
        /\ writers[w].pc = "process"
        /\ WriterMoves(w, WriterPrepared(w, process_documents(knowledge_dir),
                                         EmbedOk(fault)),
                       disk)
        /\ UNCHANGED <<unchangedByWriters, collection>>

\* the ids of the records of a collection
IdsOf(coll) == {coll[i].id : i \in 1..Len(coll)}

\* the records of batch whose id is not in the collection yet
NewRecords(coll, batch) ==
    LET IsNew(r) == r.id \notin IdsOf(coll)
    IN  SelectSeq(batch, IsNew)

\* the collection after collection.add(batch) through a handle
Added(coll, batch, valid, outcome) ==
    IF ~valid THEN [raised |-> outcome = "raises", collection |-> coll]
    ELSE IF outcome = "raises" /\ NewRecords(coll, batch) /= batch
    THEN [raised |-> TRUE, collection |-> coll]
    ELSE [raised |-> FALSE, collection |-> coll \o NewRecords(coll, batch)]

WriterAdded(w, r) ==
    [WriterEnds(w, IF r.raised THEN "raised" ELSE "returned") EXCEPT !.added = TRUE]

\* lines 127-140
WriterAdd(w) ==
    \E outcome \in VersionOutcomes :
        /\ writers[w].pc = "add"
        /\ IF SkipsIngest(CountAtAdd(writers[w].count, Len(collection)),
                          writers[w].force_refresh)
           THEN /\ WriterMoves(w, WriterEnds(w, "returned"), disk)
                /\ UNCHANGED collection
           ELSE /\ collection' = Added(collection, writers[w].batch,
                                       HandleValid(w), outcome).collection
                /\ WriterMoves(w,
                               WriterAdded(w, Added(collection, writers[w].batch,
                                                    HandleValid(w), outcome)),
                               disk)
        /\ UNCHANGED unchangedByWriters

\* the collection is empty, or holds what an earlier run ingested
InitWriters ==
    /\ chunk_size = MaxChunkSize
    /\ chunk_overlap = 1
    /\ ChunkIdle
    /\ DocsIdle
    /\ CtxIdle
    /\ knowledge_dir \in StoreDirs
    /\ collection \in {<<>>, ingest_documents(<<>>, knowledge_dir, FALSE, TRUE,
                                             "ok").collection}
    /\ llm_provider = "ollama"
    /\ session = "None"
    /\ stdio_context = FALSE
    /\ connected = FALSE
    /\ connect_returned = FALSE
    /\ last = NoOp
    /\ ConcIdle

NextWriters ==
    \E w \in Writers :
        \/ WriterOpen(w)
        \/ WriterDelete(w)
        \/ WriterCreate(w)
        \/ WriterCount(w)
        \/ WriterProcess(w)
        \/ WriterAdd(w)

SpecWriters == InitWriters /\ [][NextWriters]_vars

\* ---------------------------------------------------------------------
\* C18: uncoordinated writers
\* ---------------------------------------------------------------------
\* process w got as far as line 127 with records to add
Prepared(w) == writers[w].batch /= <<>>

\* both processes were past the check together and both have finished
\* with records prepared
RaceFinished ==
    /\ disk.raced
    /\ \A w \in Writers : writers[w].pc = "done" /\ Prepared(w)

\* C18: ingest_documents takes no lock and its emptiness check (count)
\* and its add are separate steps: a process that is past the check (or
\* its reset) with records prepared calls add whatever the other process
\* has done since, so whenever both processes of a shared on-disk
\* collection were past the check before either added, both have written
\* to the collection when they finish.
C18_UncoordinatedWriters ==
    /\ \A w \in Writers :
          (writers[w].pc = "done" /\ Prepared(w)) => writers[w].added
    /\ RaceFinished => \A w \in Writers : writers[w].added
    /\ \A w \in Writers :
          writers[w].pc = "add" =>
              ~SkipsIngest(writers[w].count, writers[w].force_refresh)

\* both non-forced processes found the collection empty, both added, and
\* both returned
C18_Witness ==
    /\ RaceFinished
    /\ \A w \in Writers :
          /\ ~writers[w].force_refresh
          /\ writers[w].count = 0
          /\ writers[w].added
          /\ writers[w].status = "returned"
    /\ Len(collection) > 0

\* ---------------------------------------------------------------------
\* C19: the client's connection guard
\* ---------------------------------------------------------------------
\* the last operation was one of the client's methods that talk to the
\* server
ClientCalled == last.op = "client" /\ last.name \in ClientMethods

\* C19: the client's guard tracks the real connection state: an operation
\* (query_stock, get_vector_store_stats, refresh_knowledge_base,
\* list_available_tools) is forwarded to the session only if the last
\* connect completed successfully and no disconnect has happened since,
\* and otherwise raises the "Not connected to server" RuntimeError; after
\* disconnect the session field is cleared.
C19_GuardTracksConnection ==
    /\ ClientCalled => (last.forwarded => connect_returned)
    /\ (ClientCalled /\ ~connect_returned) =>
           /\ last.status = "raised"
           /\ last.text = NotConnected
    /\ last.op = "disconnect" => session = "None"

\* ---------------------------------------------------------------------
\* C20: the text of the refresh tool
\* ---------------------------------------------------------------------
\* the refresh tool was called, on the server or through the client, and
\* answered that the knowledge base was refreshed
RefreshReportedSuccess ==
    /\ last.name = "refresh_knowledge_base"
    /\ last.op \in {"call_tool", "client"}
    /\ last.text = "Knowledge base refreshed successfully"

\* C20: refresh_knowledge_base reports "Knowledge base refreshed
\* successfully" only when the forced re-ingestion succeeded, that is when
\* after the call the collection holds one record for every chunk of the
\* current knowledge directory; when embedding generation failed, or the
\* collection is left empty although the directory has chunks, the text is
\* a different one.
C20_RefreshSuccessIsTrue ==
    RefreshReportedSuccess =>
        /\ collection = CurrentRecords
        /\ EmbeddingsEmpty \notin {last.calls[i] : i \in 1..Len(last.calls)}
        /\ CurrentChunks /= <<>> => collection /= <<>>

\* ---------------------------------------------------------------------
\* C21: the context when nothing is left to format
\* ---------------------------------------------------------------------
\* the results of the query that the ticker filter lets through
KeptResults ==
    IF NoResults(results) THEN {}
    ELSE {i \in 1..Len(results.documents[1]) :
              ~SkipsResult(results.metadatas[1][i], ticker)}

ReadStep ==
    /\ last'.op \in {"call_tool", "client"}
    /\ last'.name \in {"query_stock", "get_vector_store_stats",
                       "list_available_tools"}

\* the step is an ingestion: ingest_documents, or the refresh tool
IngestStep ==
    \/ last'.op = "ingest_documents"
    \/ last'.op \in {"call_tool", "client"} /\ last'.name = "refresh_knowledge_base"

\* C22: query_stock (valid or invalid arguments, the provider answering or
\* failing) and get_vector_store_stats leave the records of the
\* collection, their ids and their number as they were; only
\* ingest_documents and refresh_knowledge_base change the collection, and
\* no record of a stock query is ever in it.
C22_ReadsDoNotWrite ==
    /\ [][ReadStep => collection' = collection]_vars
    /\ [][collection' /= collection => IngestStep]_vars
    /\ [](collection \in {<<>>} \cup
            {ingest_documents(<<>>, d, FALSE, TRUE, "ok").collection : d \in StoreDirs})

\* a stock query whose provider failed has just been answered from a
\* collection that holds records
C22_Witness ==
    /\ last.name = "query_stock"
    /\ last.op = "call_tool"
    /\ last.generate.called > 0
    /\ last.generate.raised
    /\ Len(collection) > 1
    /\ last.count_before = Len(collection)

\* ---------------------------------------------------------------------
\* C23: server tool calls never raise
\* ---------------------------------------------------------------------
\* the messages of the exceptions the handlers and the store raise
ErrorMessages ==
    {"'NoneType' object has no attribute 'upper'",
     ChromaError("reset_collection"), ChromaError("add"), ChromaError("count"),
     ChromaError("query")}

ErrorTexts == {"Error: " \o m : m \in ErrorMessages}

LastCall == IF last.calls = <<>> THEN "" ELSE last.calls[Len(last.calls)]

\* the operation under the tool that was called raised an exception: the
\* stock-query handler, get_collection_stats, or ingest_documents in its
\* reset, its count or its add
UnderlyingRaised ==
    IF last.name = "query_stock" THEN last.handler = "raised"
    ELSE IF last.name = "get_vector_store_stats" THEN last.stats = NoStats
    ELSE IF last.name = "refresh_knowledge_base"
    THEN \/ LastCall \in {"reset_collection", "count"}
         \/ LastCall = "add" /\ collection = <<>>
    ELSE FALSE

\* C23: for every tool name, known or not, and every outcome of the
\* operation under it, call_tool returns one text and no exception leaves
\* it: "Unknown tool: <name>" for a name that is no tool, "Error: <message>"
\* when the operation raised, and the result of the operation otherwise.
C23_CallToolNeverRaises ==
    last.op = "call_tool" =>
        /\ last.status = "returned"
        /\ last.name \notin ToolNames => last.text = "Unknown tool: " \o last.name
        /\ UnderlyingRaised => last.text \in ErrorTexts
        /\ (last.name \in ToolNames /\ ~UnderlyingRaised) =>
              /\ last.text \notin ErrorTexts
              /\ last.text /= ""
        /\ (last.name = "get_vector_store_stats" /\ ~UnderlyingRaised) =>
              last.text = JsonDumps(Stats(Len(collection)))
        /\ (last.name = "refresh_knowledge_base" /\ ~UnderlyingRaised) =>
              last.text = "Knowledge base refreshed successfully"

\* the stats tool was called while the collection could not be read
C23_Witness ==
    /\ last.op = "call_tool"
    /\ last.name = "get_vector_store_stats"
    /\ UnderlyingRaised
    /\ last.status = "returned"
    /\ last.text = "Error: " \o ChromaError("count")
    /\ Len(collection) > 0

\* ---------------------------------------------------------------------
\* C24: the positions in the chunk metadata
\* ---------------------------------------------------------------------
\* C24: for every chunk chunk_text returns when 0 <= chunk_overlap <
\* chunk_size, start_char is chunk_id * (chunk_size - chunk_overlap),
\* end_char - start_char is the length of the chunk's text, and end_char
\* does not exceed the length of the source text, also for the last,
\* shorter chunk.
C24_ChunkPositions ==
    (pc = "done" /\ chunk_overlap < chunk_size) =>
        \A i \in 1..Len(chunks) :
            /\ chunks[i].metadata.start_char
                  = chunks[i].metadata.chunk_id * (chunk_size - chunk_overlap)
            /\ chunks[i].metadata.end_char - chunks[i].metadata.start_char
                  = Len(chunks[i].text)
            /\ chunks[i].metadata.end_char <= Len(text)

====
